---- MODULE Spec2Model ----
(***************************************************************************)
(* Model of ros/src/waypoint_updater/waypoint_updater.py: the node that    *)
(* publishes, at every iteration of loop(), the waypoints ahead of the car *)
(* with their target speeds, and the index of the car on the path.         *)
(*                                                                         *)
(* Units.  Positions and distances are integers in 1/100 of a distance     *)
(* unit, times are integers in 1/10 of a time unit.  A speed is an exact   *)
(* rational [num, den] in units of MAX_SPEED (SPEED_MPH * MPH_TO_MPS), so  *)
(* the ramp (d - STOPPED_DISTANCE) / SLOW_DISTANCE * MAX_SPEED is the      *)
(* rational (d - STOPPED_DISTANCE) / SLOW_DISTANCE.                        *)
(***************************************************************************)
EXTENDS Integers, Sequences, FiniteSets, TLC

\* Python's None, and a value that is not None
None == << >>
Some(v) == <<v>>
Val(o) == o[1]

----------------------------------------------------------------------------
(* Rational speeds *)

Rat(n, d) == [num |-> n, den |-> d]
RatEq(a, b) == a.num * b.den = b.num * a.den
RatLt(a, b) == a.num * b.den < b.num * a.den
RatLe(a, b) == a.num * b.den <= b.num * a.den

----------------------------------------------------------------------------
(* Module constants, waypoint_updater.py lines 15-26 *)

\* MAX_SPEED = SPEED_MPH * MPH_TO_MPS: the unit of speed of this model
MAX_SPEED == Rat(1, 1)
\* the literal 0.0 of get_distance_speed_tuple
ZERO_SPEED == Rat(0, 1)
LOOKAHEAD_WPS == 200
\* 0.5 time units
STALE_TIME == 5
\* 22.0 distance units
MIN_DISTANCE == 2200
\* 8.0 distance units
DELTA_DISTANCE == 800
STOPPED_DISTANCE == DELTA_DISTANCE + MIN_DISTANCE
\* SPEED_MPH ** 1.175 = 10.0 ** 1.175 = 14.96235656...: rounded up to the
\* grid, so that d < SLOW_DISTANCE + c is decided on every grid distance d
\* as the source decides it
SLOW_DISTANCE == 1497
MAX_DISTANCE == SLOW_DISTANCE + STOPPED_DISTANCE

----------------------------------------------------------------------------
(* waypoint_helper: not part of the source at hand, modelled from the      *)
(* specification (sections 4.1, 4.2, 4.5)                                  *)

Abs(n) == IF n < 0 THEN -n ELSE n

\* integer square root: the r in lo..hi with r * r <= n < (r + 1) * (r + 1)
RECURSIVE SqrtBetween(_, _, _)
SqrtBetween(n, lo, hi) ==
    IF lo >= hi THEN lo
    ELSE LET mid == (lo + hi + 1) \div 2
         IN  IF mid * mid <= n THEN SqrtBetween(n, mid, hi)
             ELSE SqrtBetween(n, lo, mid - 1)

\* planar Euclidean length of the vector (dx, dy)
Hypot(dx, dy) ==
    IF dy = 0 THEN Abs(dx)
    ELSE IF dx = 0 THEN Abs(dy)
    ELSE SqrtBetween(dx * dx + dy * dy, 0, Abs(dx) + Abs(dy))

Dist2(p, q) == (p.x - q.x) * (p.x - q.x) + (p.y - q.y) * (p.y - q.y)

\* index (0-based) of the point closest to the pose among those of indices
\* lo..hi, the lowest such index on ties (by halving, to bound the depth)
RECURSIVE ClosestIn(_, _, _, _)
ClosestIn(pose, waypoints, lo, hi) ==
    IF lo >= hi THEN lo
    ELSE LET mid == (lo + hi) \div 2
             a == ClosestIn(pose, waypoints, lo, mid)
             b == ClosestIn(pose, waypoints, mid + 1, hi)
         IN  IF Dist2(pose, waypoints[b + 1]) < Dist2(pose, waypoints[a + 1])
             THEN b ELSE a

get_closest_waypoint_index(pose, waypoints) ==
    ClosestIn(pose, waypoints, 0, Len(waypoints) - 1)

\* copies of the points car_index, car_index + 1, ... : at most n of them,
\* no further than the end of the path
get_next_waypoints(waypoints, i, n) ==
    LET m == IF Len(waypoints) < i + n THEN Len(waypoints) ELSE i + n
    IN  [k \in 1..(m - i) |-> waypoints[i + k]]

\* sum of the lengths of the consecutive segments between the points of
\* indices lo and hi (by halving, to bound the depth)
RECURSIVE SegSum(_, _, _)
SegSum(waypoints, lo, hi) ==
    IF lo >= hi THEN 0
    ELSE IF hi = lo + 1
    THEN Hypot(waypoints[hi + 1].x - waypoints[lo + 1].x,
               waypoints[hi + 1].y - waypoints[lo + 1].y)
    ELSE LET mid == (lo + hi) \div 2
         IN  SegSum(waypoints, lo, mid) + SegSum(waypoints, mid, hi)

distance(waypoints, wp1, wp2) ==
    IF wp1 <= wp2 THEN SegSum(waypoints, wp1, wp2) ELSE SegSum(waypoints, wp2, wp1)

make_lane_object(frame_id, waypoints) ==
    [frame_id |-> frame_id, waypoints |-> waypoints]

----------------------------------------------------------------------------
(* Inputs delivered by the subscriptions *)

Point(x, y, v) == [x |-> x, y |-> y, v |-> v]

\* speed the map gives to every path point, in units of MAX_SPEED
MAP_SPEED == Rat(5, 2)

\* a straight path along the x axis through the listed abscissas
Line == [i \in 1..8 |->
            Point(<<0, 4, 1500, 2000, 2300, 3500, 4500, 9000>>[i], 0, MAP_SPEED)]

\* a path with two oblique segments, of consecutive lengths
\* 500, 500, 1000, 1000, 1000, 500, 500
Bend == << Point(0, 0, MAP_SPEED),      Point(300, 400, MAP_SPEED),
           Point(600, 800, MAP_SPEED),  Point(600, 1800, MAP_SPEED),
           Point(600, 2800, MAP_SPEED), Point(1400, 3400, MAP_SPEED),
           Point(1400, 3900, MAP_SPEED), Point(1400, 4400, MAP_SPEED) >>

Maps == {Line, Bend}

PoseMsgs ==
    [pose : {[x |-> 0, y |-> 0], [x |-> 10, y |-> 0], [x |-> 1400, y |-> 300],
             [x |-> 2290, y |-> 0]},
     frame_id : {"world", "map"}]

TrafficMsgs == {-1, 0, 5, 6}

\* The path of scenarios A to D: ScenarioLen points, one distance unit apart
ScenarioLen == 300
Straight == [i \in 1..ScenarioLen |-> Point(100 * (i - 1), 0, MAP_SPEED)]

ScenarioMaps == {Straight}

\* the pose at point 0, at point 10 and at point 250
ScenarioPoseMsgs ==
    [pose : {[x |-> 0, y |-> 0], [x |-> 1000, y |-> 0], [x |-> 25000, y |-> 0]},
     frame_id : {"world"}]

ScenarioTrafficMsgs == {-1, 50}

\* the clock stops at MaxTime tenths of a time unit
MaxTime == 7

----------------------------------------------------------------------------
(* State *)

VARIABLES
    base_waypoints,         \* self.base_waypoints: None or a sequence of points
    pose,                   \* self.pose: None or a position
    frame_id,               \* self.frame_id: None or a string
    previous_car_index,     \* self.previous_car_index
    traffic_index,          \* self.traffic_index
    traffic_time_received,  \* self.traffic_time_received
    now,                    \* rospy.get_time()
    published,              \* the messages the step just taken published, in order
    iteration,              \* None, or after an iteration of loop: whether it was
                            \* skipped, and the values of its local variables
    delivered,              \* history: the paths of the first and of the latest
                            \* delivery on /base_waypoints, None before it
    threads                 \* where loop and the callbacks are in their code, and
                            \* their local variables, when they run interleaved

vars == <<base_waypoints, pose, frame_id, previous_car_index, traffic_index,
          traffic_time_received, now, published, iteration, delivered, threads>>

fields == <<base_waypoints, pose, frame_id, previous_car_index, traffic_index,
            traffic_time_received>>

\* loop in rate.sleep(): pc is the line loop is at, the other fields are its
\* local variables and, for the properties, what it has read so far:
\* pose_read the pose line 64 read, idx_at_time the stop-target index stored
\* when line 71 read the time of reception, torn
\* whether traffic_cb was then between its two writes, idx_reads the
\* stop-target indices lines 74, 75 and 116 read
Sleeping ==
    [pc |-> "sleep", car_index |-> 0, window |-> << >>, is_new |-> FALSE,
     is_near_ahead |-> FALSE, k |-> 0, pose_read |-> None,
     idx_at_time |-> 0, torn |-> FALSE, idx_reads |-> {}]

\* no callback is running, and loop is in rate.sleep()
Idle == [loop |-> Sleeping, pose_cb |-> None, traffic_cb |-> None]

\* WaypointUpdater.__init__
Init ==
    /\ base_waypoints = None
    /\ pose = None
    /\ frame_id = None
    /\ previous_car_index = 0
    /\ traffic_index = -1
    /\ now = 0
    /\ traffic_time_received = now
    /\ published = << >>
    /\ iteration = None
    /\ delivered = [first |-> None, last |-> None]
    /\ threads = Idle

----------------------------------------------------------------------------
(* Callbacks *)

\* a step that is no iteration of loop publishes nothing
Silent == published' = << >> /\ iteration' = None

pose_cb(msg) ==
    /\ pose' = Some(msg.pose)
    /\ frame_id' = Some(msg.frame_id)
    /\ Silent
    /\ UNCHANGED <<base_waypoints, previous_car_index, traffic_index,
                   traffic_time_received, now, delivered, threads>>

\* base_waypoints_cb storing the map only when none is stored yet
base_waypoints_cb_once(msg) ==
    /\ base_waypoints' = IF base_waypoints = None THEN Some(msg) ELSE base_waypoints
    /\ delivered' = [first |-> IF delivered.first = None THEN Some(msg)
                                ELSE delivered.first,
                     last |-> Some(msg)]
    /\ Silent
    /\ UNCHANGED <<pose, frame_id, previous_car_index, traffic_index,
                   traffic_time_received, now, threads>>

base_waypoints_cb(msg) ==
    /\ base_waypoints' = Some(msg)
    /\ delivered' = [first |-> IF delivered.first = None THEN Some(msg)
                                ELSE delivered.first,
                     last |-> Some(msg)]
    /\ Silent
    /\ UNCHANGED <<pose, frame_id, previous_car_index, traffic_index,
                   traffic_time_received, now, threads>>

\* traffic_cb storing the index without the time of reception
traffic_cb_notime(msg) ==
    /\ traffic_index' = msg
    /\ traffic_time_received' = traffic_time_received
    /\ Silent
    /\ UNCHANGED <<base_waypoints, pose, frame_id, previous_car_index, now,
                   delivered, threads>>

traffic_cb(msg) ==
    /\ traffic_index' = msg
    /\ traffic_time_received' = now
    /\ Silent
    /\ UNCHANGED <<base_waypoints, pose, frame_id, previous_car_index, now,
                   delivered, threads>>

\* the clock of rospy.get_time() advances
Elapse ==
    /\ now < MaxTime
    /\ now' = now + 1
    /\ Silent
    /\ UNCHANGED <<fields, delivered, threads>>

----------------------------------------------------------------------------
(* loop *)

\* get_distance_speed_tuple starting from full speed instead of 0.0
get_distance_speed_tuple_full(waypoints, t_index, index) ==
    LET d == distance(waypoints, index, t_index)
        speed1 == IF d > STOPPED_DISTANCE
                  THEN Rat(d - STOPPED_DISTANCE, SLOW_DISTANCE)
                  ELSE MAX_SPEED
        speed2 == IF d < STOPPED_DISTANCE /\ d > MIN_DISTANCE
                  THEN ZERO_SPEED
                  ELSE speed1
    IN  <<d, speed2>>

\* get_distance_speed_tuple starting from the speed the point already has
get_distance_speed_tuple_keep(waypoints, t_index, index) ==
    LET d == distance(waypoints, index, t_index)
        speed1 == IF d > STOPPED_DISTANCE
                  THEN Rat(d - STOPPED_DISTANCE, SLOW_DISTANCE)
                  ELSE waypoints[index + 1].v
        speed2 == IF d < STOPPED_DISTANCE /\ d > MIN_DISTANCE
                  THEN ZERO_SPEED
                  ELSE speed1
    IN  <<d, speed2>>

\* get_distance_speed_tuple with the ramp measured from MIN_DISTANCE
get_distance_speed_tuple_min(waypoints, t_index, index) ==
    LET d == distance(waypoints, index, t_index)
        speed1 == IF d > STOPPED_DISTANCE
                  THEN Rat(d - MIN_DISTANCE, SLOW_DISTANCE)
                  ELSE ZERO_SPEED
        speed2 == IF d < STOPPED_DISTANCE /\ d > MIN_DISTANCE
                  THEN ZERO_SPEED
                  ELSE speed1
    IN  <<d, speed2>>

\* get_distance_speed_tuple(index), reading self.base_waypoints and
\* self.traffic_index
get_distance_speed_tuple(waypoints, t_index, index) ==
    LET d == distance(waypoints, index, t_index)
        speed0 == ZERO_SPEED
        speed1 == IF d > STOPPED_DISTANCE
                  THEN Rat(d - STOPPED_DISTANCE, SLOW_DISTANCE)
                  ELSE speed0
        speed2 == IF d < STOPPED_DISTANCE /\ d > MIN_DISTANCE
                  THEN ZERO_SPEED
                  ELSE speed1
    IN  <<d, speed2>>

\* line 71 with <= for <
IsNew_le(t, received) == t - received <= STALE_TIME

\* line 71 without the staleness test
IsNew_always(t, received) == TRUE

\* line 71
IsNew(t, received) == t - received < STALE_TIME

\* lines 72-76 with <= for the first <
IsNearAhead_le(waypoints, car_index, t_index) ==
    IF (t_index - car_index) > 0
    THEN LET d == distance(waypoints, car_index, t_index)
         IN  MIN_DISTANCE <= d /\ d < MAX_DISTANCE
    ELSE FALSE

\* lines 72-76 without the upper bound MAX_DISTANCE
IsNearAhead_nomax(waypoints, car_index, t_index) ==
    IF (t_index - car_index) > 0
    THEN LET d == distance(waypoints, car_index, t_index)
         IN  MIN_DISTANCE < d
    ELSE FALSE

\* lines 72-76 testing only that a stop target is set, not that it is ahead
IsNearAhead_set(waypoints, car_index, t_index) ==
    IF t_index # -1
    THEN LET d == distance(waypoints, car_index, t_index)
         IN  MIN_DISTANCE < d /\ d < MAX_DISTANCE
    ELSE FALSE

\* lines 72-76
IsNearAhead(waypoints, car_index, t_index) ==
    IF (t_index - car_index) > 0
    THEN LET d == distance(waypoints, car_index, t_index)
         IN  MIN_DISTANCE < d /\ d < MAX_DISTANCE
    ELSE FALSE

\* lines 78-86 with the cruise branch leaving the speeds of the map
SetSpeeds_keep(lookahead, waypoints, car_index, t_index, decelerate) ==
    IF ~decelerate
    THEN lookahead
    ELSE [k \in DOMAIN lookahead |->
            [lookahead[k] EXCEPT
                !.v = get_distance_speed_tuple(waypoints, t_index, car_index + (k - 1))[2]]]

\* lines 78-86: the speeds written to the lookahead waypoints
SetSpeeds(lookahead, waypoints, car_index, t_index, decelerate) ==
    IF ~decelerate
    THEN [k \in DOMAIN lookahead |-> [lookahead[k] EXCEPT !.v = MAX_SPEED]]
    ELSE [k \in DOMAIN lookahead |->
            [lookahead[k] EXCEPT
                !.v = get_distance_speed_tuple(waypoints, t_index, car_index + (k - 1))[2]]]

\* the path store after lines 81-86, were the lookahead waypoints the
\* points of the store themselves and not copies
StoreAfterWrites_shared(waypoints, car_index, final) ==
    [i \in DOMAIN waypoints |->
        IF car_index < i /\ i <= car_index + Len(final)
        THEN final[i - car_index] ELSE waypoints[i]]

\* the path store after lines 81-86 have written the speeds: the lookahead
\* waypoints are copies, so no point of the store is written
StoreAfterWrites(waypoints, car_index, final) == waypoints

\* lines 66-68 with the window starting one point after the car
Lookahead_next(waypoints, car_index) ==
    get_next_waypoints(waypoints, car_index + 1, LOOKAHEAD_WPS)

\* lines 66-68: the subset of waypoints ahead
Lookahead(waypoints, car_index) ==
    get_next_waypoints(waypoints, car_index, LOOKAHEAD_WPS)

\* line 60 with "is not None" for the last "is None"
NotReady_not(waypoints, p, f) == waypoints = None \/ p = None \/ f # None

\* line 60: the iteration is skipped
NotReady(waypoints, p, f) == waypoints = None \/ p = None \/ f = None

\* lines 89-91 with the two publications swapped
Publish_swapped(lane, car_index) ==
    << [topic |-> "car_index", msg |-> car_index],
       [topic |-> "final_waypoints", msg |-> lane] >>

\* lines 89-91: the two publications, in order
Publish(lane, car_index) ==
    << [topic |-> "final_waypoints", msg |-> lane],
       [topic |-> "car_index", msg |-> car_index] >>

\* what one iteration publishes and writes, lines 59-91
LoopOutputs ==
    IF NotReady(base_waypoints, pose, frame_id)
    THEN /\ published' = << >>
         /\ iteration' = Some([skipped |-> TRUE])
         /\ base_waypoints' = base_waypoints
    ELSE LET waypoints == Val(base_waypoints)
             car_index == get_closest_waypoint_index(Val(pose), waypoints)
             lookahead_waypoints == Lookahead(waypoints, car_index)
             is_new == IsNew(now, traffic_time_received)
             is_near_ahead == IsNearAhead(waypoints, car_index, traffic_index)
             final == SetSpeeds(lookahead_waypoints, waypoints, car_index,
                                traffic_index, is_near_ahead /\ is_new)
             lane == make_lane_object(Val(frame_id), final)
         IN  /\ published' = Publish(lane, car_index)
             /\ iteration' = Some([skipped |-> FALSE, car_index |-> car_index,
                                   is_new |-> is_new,
                                   is_near_ahead |-> is_near_ahead])
             /\ base_waypoints' = Some(StoreAfterWrites(waypoints, car_index, final))

\* loop keeping the car index it found in self.previous_car_index
loop_hint ==
    /\ LoopOutputs
    /\ previous_car_index' = IF published' = << >> THEN previous_car_index
                             ELSE published'[2].msg
    /\ UNCHANGED <<pose, frame_id, traffic_index,
                   traffic_time_received, now, delivered, threads>>

\* loop dropping the stop target once it has published
loop_consume ==
    /\ LoopOutputs
    /\ traffic_index' = -1
    /\ UNCHANGED <<pose, frame_id, previous_car_index,
                   traffic_time_received, now, delivered, threads>>

\* one iteration of the while loop of loop(), lines 57-91
loop ==
    /\ LoopOutputs
    /\ UNCHANGED <<pose, frame_id, previous_car_index, traffic_index,
                   traffic_time_received, now, delivered, threads>>

Next ==
    \/ \E msg \in PoseMsgs : pose_cb(msg)
    \/ \E msg \in Maps : base_waypoints_cb(msg)
    \/ \E msg \in TrafficMsgs : traffic_cb(msg)
    \/ Elapse
    \/ loop

Spec == Init /\ [][Next]_vars

\* the same node fed with the inputs of the scenarios
NextScenario ==
    \/ \E msg \in ScenarioPoseMsgs : pose_cb(msg)
    \/ \E msg \in ScenarioMaps : base_waypoints_cb(msg)
    \/ \E msg \in ScenarioTrafficMsgs : traffic_cb(msg)
    \/ Elapse
    \/ loop

SpecScenario == Init /\ [][NextScenario]_vars

----------------------------------------------------------------------------
(* The same node with loop and the callbacks interleaved: rospy runs the   *)
(* callbacks of the subscriptions in threads of their own, so a callback   *)
(* may run between any two lines of loop, and loop between the two         *)
(* assignments of a callback.  Each step below is one line of the source.  *)

\* a short straight path along the x axis
Short == << Point(0, 0, MAP_SPEED),    Point(1500, 0, MAP_SPEED),
            Point(3500, 0, MAP_SPEED), Point(4500, 0, MAP_SPEED) >>

ConcMaps == {Short}

\* two pose updates, each position with its own frame identifier
ConcPoseMsgs ==
    {[pose |-> [x |-> 0, y |-> 0], frame_id |-> "world"],
     [pose |-> [x |-> 10, y |-> 0], frame_id |-> "map"]}

\* the point 35.00 ahead of the first one, and the last point
ConcTrafficMsgs == {2, 3}

Quiet == <<base_waypoints, pose, frame_id, previous_car_index, traffic_index,
           traffic_time_received, now, delivered>>

\* line 95
pose_cb_95(msg) ==
    /\ threads.pose_cb = None
    /\ pose' = Some(msg.pose)
    /\ threads' = [threads EXCEPT !.pose_cb = Some(msg)]
    /\ Silent
    /\ UNCHANGED <<base_waypoints, frame_id, previous_car_index, traffic_index,
                   traffic_time_received, now, delivered>>

\* line 96
pose_cb_96 ==
    /\ threads.pose_cb # None
    /\ frame_id' = Some(Val(threads.pose_cb).frame_id)
    /\ threads' = [threads EXCEPT !.pose_cb = None]
    /\ Silent
    /\ UNCHANGED <<base_waypoints, pose, previous_car_index, traffic_index,
                   traffic_time_received, now, delivered>>

\* line 105
traffic_cb_105(msg) ==
    /\ threads.traffic_cb = None
    /\ traffic_index' = msg
    /\ threads' = [threads EXCEPT !.traffic_cb = Some(msg)]
    /\ Silent
    /\ UNCHANGED <<base_waypoints, pose, frame_id, previous_car_index,
                   traffic_time_received, now, delivered>>

\* line 106
traffic_cb_106 ==
    /\ threads.traffic_cb # None
    /\ traffic_time_received' = now
    /\ threads' = [threads EXCEPT !.traffic_cb = None]
    /\ Silent
    /\ UNCHANGED <<base_waypoints, pose, frame_id, previous_car_index,
                   traffic_index, now, delivered>>

\* lines 58-61: the iteration is skipped, or goes on to line 64
loop_60 ==
    /\ threads.loop.pc = "sleep"
    /\ IF NotReady(base_waypoints, pose, frame_id)
       THEN /\ published' = << >>
            /\ iteration' = Some([skipped |-> TRUE])
            /\ UNCHANGED threads
       ELSE /\ threads' = [threads EXCEPT !.loop.pc = "64"]
            /\ Silent
    /\ UNCHANGED Quiet

\* lines 64-68: reads self.pose and self.base_waypoints
loop_64 ==
    /\ threads.loop.pc = "64"
    /\ LET car_index == get_closest_waypoint_index(Val(pose), Val(base_waypoints))
       IN  threads' = [threads EXCEPT
                          !.loop.pc = "71",
                          !.loop.car_index = car_index,
                          !.loop.pose_read = pose,
                          !.loop.window = Lookahead(Val(base_waypoints), car_index)]
    /\ Silent
    /\ UNCHANGED Quiet

\* line 71: reads the clock and self.traffic_time_received
loop_71 ==
    /\ threads.loop.pc = "71"
    /\ threads' = [threads EXCEPT
                      !.loop.pc = "74",
                      !.loop.is_new = IsNew(now, traffic_time_received),
                      !.loop.idx_at_time = traffic_index,
                      !.loop.torn = (threads.traffic_cb # None)]
    /\ Silent
    /\ UNCHANGED Quiet

\* lines 72-74: reads self.traffic_index
loop_74 ==
    /\ threads.loop.pc = "74"
    /\ threads' = [threads EXCEPT
                      !.loop.pc = IF (traffic_index - threads.loop.car_index) > 0
                                  THEN "75" ELSE "79",
                      !.loop.is_near_ahead = FALSE,
                      !.loop.idx_reads = @ \cup {traffic_index}]
    /\ Silent
    /\ UNCHANGED Quiet

\* lines 75-76: reads self.traffic_index again
loop_75 ==
    /\ threads.loop.pc = "75"
    /\ LET d == distance(Val(base_waypoints), threads.loop.car_index, traffic_index)
       IN  threads' = [threads EXCEPT
                          !.loop.pc = "79",
                          !.loop.is_near_ahead = (MIN_DISTANCE < d /\ d < MAX_DISTANCE),
                          !.loop.idx_reads = @ \cup {traffic_index}]
    /\ Silent
    /\ UNCHANGED Quiet

\* lines 79-82: the cruise branch writes every speed, or the else branch
\* is entered
loop_79 ==
    /\ threads.loop.pc = "79"
    /\ IF ~(threads.loop.is_near_ahead /\ threads.loop.is_new)
          \/ threads.loop.window = << >>
       THEN threads' = [threads EXCEPT
                          !.loop.pc = "89",
                          !.loop.window = [k \in DOMAIN @ |-> [@[k] EXCEPT !.v = MAX_SPEED]]]
       ELSE threads' = [threads EXCEPT !.loop.pc = "86", !.loop.k = 1]
    /\ Silent
    /\ UNCHANGED Quiet

\* lines 85-86, once per point of the window: get_distance_speed_tuple
\* reads self.traffic_index
loop_86 ==
    /\ threads.loop.pc = "86"
    /\ LET k == threads.loop.k
           speed == get_distance_speed_tuple(Val(base_waypoints), traffic_index,
                                             threads.loop.car_index + (k - 1))[2]
       IN  threads' = [threads EXCEPT
                          !.loop.pc = IF k = Len(threads.loop.window) THEN "89" ELSE "86",
                          !.loop.k = k + 1,
                          !.loop.window[k].v = speed,
                          !.loop.idx_reads = @ \cup {traffic_index}]
    /\ Silent
    /\ UNCHANGED Quiet

\* lines 88-91: reads self.frame_id and publishes
loop_89 ==
    /\ threads.loop.pc = "89"
    /\ published' = Publish(make_lane_object(Val(frame_id), threads.loop.window),
                            threads.loop.car_index)
    /\ iteration' = Some([skipped |-> FALSE,
                          car_index |-> threads.loop.car_index,
                          is_new |-> threads.loop.is_new,
                          is_near_ahead |-> threads.loop.is_near_ahead,
                          pose_read |-> threads.loop.pose_read,
                          idx_at_time |-> threads.loop.idx_at_time,
                          torn |-> threads.loop.torn,
                          idx_reads |-> threads.loop.idx_reads])
    /\ threads' = [threads EXCEPT !.loop = Sleeping]
    /\ UNCHANGED Quiet

NextConc ==
    \/ \E msg \in ConcPoseMsgs : pose_cb_95(msg)
    \/ pose_cb_96
    \/ \E msg \in ConcMaps : base_waypoints_cb(msg)
    \/ \E msg \in ConcTrafficMsgs : traffic_cb_105(msg)
    \/ traffic_cb_106
    \/ Elapse
    \/ loop_60 \/ loop_64 \/ loop_71 \/ loop_74 \/ loop_75
    \/ loop_79 \/ loop_86 \/ loop_89

SpecConc == Init /\ [][NextConc]_vars

----------------------------------------------------------------------------
(* Properties.  They are stated on the state right after an iteration of   *)
(* loop, where iteration # None, published holds what the iteration        *)
(* published, and the fields and the clock are those the iteration read.   *)

Ticked == iteration # None
Ran == Ticked /\ ~Val(iteration).skipped
CarIndex == Val(iteration).car_index
\* the iteration took the else branch of line 79
Decelerate == Val(iteration).is_near_ahead /\ Val(iteration).is_new
Window == published[1].msg.waypoints
\* along-path distance from the k-th point of the window to the stop target
DistToTarget(k) == distance(Val(base_waypoints), CarIndex + (k - 1), traffic_index)
AllMaxSpeed == \A k \in DOMAIN Window : Window[k].v = MAX_SPEED

\* C1: an iteration publishes nothing, neither on final_waypoints nor on
\* car_index, exactly when base_waypoints, pose or frame_id is None.
C1_SkipIffNotReady ==
    Ticked =>
        /\ Val(iteration).skipped <=>
               (base_waypoints = None \/ pose = None \/ frame_id = None)
        /\ Val(iteration).skipped <=> (published = << >>)

C1_Witness ==
    /\ Ticked /\ published = << >>
    /\ base_waypoints # None /\ pose = None

\* C2: an iteration that finds the path and a pose publishes exactly two
\* messages: first the window on final_waypoints, then on car_index the
\* index the window starts at; this also when no stop target is set.
C2_OneWindowThenCarIndex ==
    (Ticked /\ base_waypoints # None /\ pose # None /\ frame_id # None) =>
        /\ Len(published) = 2
        /\ published[1].topic = "final_waypoints"
        /\ published[2].topic = "car_index"
        /\ published[2].msg = CarIndex
        /\ Len(Window) >= 1
        /\ \A k \in DOMAIN Window :
              LET p == Val(base_waypoints)[published[2].msg + k]
              IN  Window[k].x = p.x /\ Window[k].y = p.y

C2_Witness ==
    /\ Ticked /\ Len(published) = 2
    /\ traffic_index = -1
    /\ published[2].msg > 0

\* C3: an iteration decelerates exactly when the stop target is strictly
\* ahead of the car, the distance d from the car to it satisfies
\* MIN_DISTANCE < d < MAX_DISTANCE, and now - traffic_time_received <
\* STALE_TIME; the one decision holds for every point of the window: all
\* are at MAX_SPEED, or all follow the stopping profile.
C3_DecelerateIff ==
    Ran =>
        LET d == distance(Val(base_waypoints), CarIndex, traffic_index)
            cond == /\ traffic_index > CarIndex
                    /\ MIN_DISTANCE < d
                    /\ d < MAX_DISTANCE
                    /\ now - traffic_time_received < STALE_TIME
        IN  /\ Decelerate <=> cond
            /\ IF cond
               THEN \A k \in DOMAIN Window :
                       RatEq(Window[k].v,
                             IF DistToTarget(k) > STOPPED_DISTANCE
                             THEN Rat(DistToTarget(k) - STOPPED_DISTANCE, SLOW_DISTANCE)
                             ELSE ZERO_SPEED)
               ELSE AllMaxSpeed

C3_Witness ==
    /\ Ran /\ Decelerate
    /\ \E k \in DOMAIN Window : DistToTarget(k) <= MIN_DISTANCE

\* C4: an iteration that does not decelerate publishes a window whose
\* points all have speed exactly MAX_SPEED.
C4_CruiseAllMaxSpeed ==
    (Ran /\ ~Decelerate) => AllMaxSpeed

C4_Witness ==
    /\ Ran /\ ~Decelerate /\ Len(Window) > 1
    /\ Val(iteration).is_near_ahead

\* C5: an iteration at least STALE_TIME after the latest stop-target update
\* does not decelerate, whatever the stop target: all speeds are MAX_SPEED.
C5_StaleNeverDecelerates ==
    (Ran /\ now - traffic_time_received >= STALE_TIME) =>
        ~Decelerate /\ AllMaxSpeed

C5_Witness ==
    /\ Ran /\ now - traffic_time_received = STALE_TIME
    /\ traffic_time_received > 0
    /\ traffic_index > CarIndex
    /\ LET d == distance(Val(base_waypoints), CarIndex, traffic_index)
       IN  MIN_DISTANCE < d /\ d < MAX_DISTANCE

\* C6: an iteration whose stop target is not strictly ahead of the car
\* (traffic_index - car_index <= 0, the initial -1 included) cruises, fresh
\* or not: all speeds are MAX_SPEED.
C6_NotAheadCruises ==
    (Ran /\ traffic_index - CarIndex <= 0) =>
        ~Decelerate /\ AllMaxSpeed

\* the initial sentinel and the initial timestamp, still fresh
C6_Witness ==
    /\ Ran /\ traffic_index = -1 /\ traffic_time_received = 0
    /\ now - traffic_time_received < STALE_TIME
    /\ Len(Window) > 1

\* C7: when decelerating, a window point at distance d from the stop target
\* with MIN_DISTANCE < d <= STOPPED_DISTANCE has speed exactly 0.
C7_StopZoneZero ==
    (Ran /\ Decelerate) =>
        \A k \in DOMAIN Window :
            (MIN_DISTANCE < DistToTarget(k) /\ DistToTarget(k) <= STOPPED_DISTANCE)
                => Window[k].v = ZERO_SPEED

C7_Witness ==
    /\ Ran /\ Decelerate
    /\ \E k \in DOMAIN Window : DistToTarget(k) = STOPPED_DISTANCE
    /\ \E k \in DOMAIN Window :
          MIN_DISTANCE < DistToTarget(k) /\ DistToTarget(k) < STOPPED_DISTANCE

\* C8: when decelerating, a window point at distance d > STOPPED_DISTANCE
\* from the stop target has speed (d - STOPPED_DISTANCE) / SLOW_DISTANCE *
\* MAX_SPEED, which is positive and strictly increasing in d.
C8_RampSpeed ==
    (Ran /\ Decelerate) =>
        \A k \in DOMAIN Window :
            DistToTarget(k) > STOPPED_DISTANCE =>
                /\ RatEq(Window[k].v,
                         Rat(DistToTarget(k) - STOPPED_DISTANCE, SLOW_DISTANCE))
                /\ RatLt(ZERO_SPEED, Window[k].v)
                /\ \A j \in DOMAIN Window :
                      (STOPPED_DISTANCE < DistToTarget(j)
                          /\ DistToTarget(j) < DistToTarget(k))
                      => RatLt(Window[j].v, Window[k].v)

C8_Witness ==
    /\ Ran /\ Decelerate
    /\ \E j, k \in DOMAIN Window :
          STOPPED_DISTANCE < DistToTarget(j) /\ DistToTarget(j) < DistToTarget(k)

\* C9: when decelerating, a window point at distance d <= MIN_DISTANCE from
\* the stop target is given speed 0 in that iteration: it keeps neither the
\* speed of the map nor any other value.
C9_PastMinZero ==
    (Ran /\ Decelerate) =>
        \A k \in DOMAIN Window :
            DistToTarget(k) <= MIN_DISTANCE =>
                Window[k].v = ZERO_SPEED /\ ~RatEq(Window[k].v, MAP_SPEED)

C9_Witness ==
    /\ Ran /\ Decelerate
    /\ \E k \in DOMAIN Window : DistToTarget(k) = MIN_DISTANCE
    /\ \E k \in DOMAIN Window : DistToTarget(k) < MIN_DISTANCE

\* the state right after the iteration of scenario B: the path Straight, the
\* pose at point 0, the stop target 50 received 0.1 time units earlier
ScenarioB ==
    /\ Ran
    /\ base_waypoints = Some(Straight)
    /\ pose = Some([x |-> 0, y |-> 0])
    /\ traffic_index = 50
    /\ now - traffic_time_received = 1

\* C10 as claimed: in scenario B the iteration decelerates.
C10_ScenarioBDecelerates ==
    ScenarioB => Decelerate

\* C10 as amended: in scenario B the car is at index 0 and the distance 50
\* to the stop target is above MIN_DISTANCE but not below MAX_DISTANCE, so
\* the iteration, though the stop target is fresh, cruises: the window has
\* LOOKAHEAD_WPS points, all at MAX_SPEED.
C10_ScenarioBCruises ==
    ScenarioB =>
        /\ CarIndex = 0
        /\ distance(Val(base_waypoints), CarIndex, traffic_index) = 5000
        /\ MIN_DISTANCE < 5000 /\ ~(5000 < MAX_DISTANCE)
        /\ Val(iteration).is_new
        /\ ~Decelerate
        /\ Len(Window) = LOOKAHEAD_WPS
        /\ AllMaxSpeed

C10_Witness == ScenarioB /\ Len(published) = 2

\* C11: the published window has min(LOOKAHEAD_WPS, length of the path -
\* car_index) points: the points of the path from car_index on, in path
\* order, ending at the last point of the path at the latest.
C11_WindowLength ==
    Ran =>
        LET path == Val(base_waypoints)
            rest == Len(path) - CarIndex
        IN  /\ Len(Window) = IF LOOKAHEAD_WPS < rest THEN LOOKAHEAD_WPS ELSE rest
            /\ \A k \in DOMAIN Window :
                  /\ CarIndex + k <= Len(path)
                  /\ Window[k].x = path[CarIndex + k].x
                  /\ Window[k].y = path[CarIndex + k].y

\* a window cut short by the end of a path longer than LOOKAHEAD_WPS
C11_Witness ==
    /\ Ran
    /\ Len(Val(base_waypoints)) > LOOKAHEAD_WPS
    /\ CarIndex > 0
    /\ Len(Window) < LOOKAHEAD_WPS
    /\ Len(Window) = Len(Val(base_waypoints)) - CarIndex

\* C12 as claimed: once a path is stored, base_waypoints is the path of the
\* first delivery, whatever is delivered later.
C12_SetOnce ==
    base_waypoints = delivered.first

\* C12 as amended: base_waypoints_cb stores the path of every delivery,
\* also over a path already stored, and nothing else changes
\* base_waypoints: it is None until the first delivery and the path of the
\* latest delivery from then on.
C12_SetByEveryDelivery ==
    base_waypoints = delivered.last

\* a later delivery has replaced the path of the first delivery
C12_Witness ==
    /\ delivered.first # None
    /\ delivered.last # delivered.first
    /\ base_waypoints = delivered.last

\* C13: an iteration of loop leaves the path store as it is: the speeds it
\* writes go to the points of the window, not to those of base_waypoints.
C13_LoopKeepsPathStore ==
    [][iteration' # None => base_waypoints' = base_waypoints]_vars

\* a decelerating window: every point differs in speed from the stored
\* point it was copied from, and the stored points keep the speed of the map
C13_Witness ==
    /\ Ran
    /\ \E k \in DOMAIN Window : Window[k].v = ZERO_SPEED
    /\ \A k \in DOMAIN Window :
          ~RatEq(Window[k].v, Val(base_waypoints)[CarIndex + k].v)
    /\ \A i \in DOMAIN Val(base_waypoints) : Val(base_waypoints)[i].v = MAP_SPEED

\* C14: under every interleaving of the steps of pose_cb with those of
\* loop, the lane an iteration publishes carries the frame identifier of
\* the pose update whose position the iteration located the car with.
\* Each position of ConcPoseMsgs comes with one frame identifier, so the
\* pair (position read at line 64, frame identifier of the lane) is a
\* pose update exactly when the two come from the same one.
C14_FrameOfLocatedPose ==
    (Ran /\ threads.loop.pc = "sleep") =>
        [pose |-> Val(Val(iteration).pose_read),
         frame_id |-> published[1].msg.frame_id] \in ConcPoseMsgs

\* C15: under every interleaving of the steps of traffic_cb with those of
\* loop, an iteration reads the stop target as one snapshot: the time of
\* reception line 71 reads belongs to the index stored at that moment
\* (traffic_cb is not between its two writes), and the reads of the index
\* at lines 74 and 75 and for every point at line 116 all return that
\* index.
C15_StopTargetSnapshot ==
    (Ran /\ threads.loop.pc = "sleep") =>
        /\ ~Val(iteration).torn
        /\ \A i \in Val(iteration).idx_reads : i = Val(iteration).idx_at_time

\* C16: traffic_time_received never decreases: it is the time of
\* construction until a step changes the stop target, every step that
\* changes traffic_index or traffic_time_received sets the time to the
\* current time, and the time is never ahead of the clock.
C16_ReceivedTimeMonotonic ==
    [][/\ traffic_time_received' >= traffic_time_received
       /\ (traffic_index' # traffic_index
             \/ traffic_time_received' # traffic_time_received)
            => (traffic_time_received' = now /\ iteration' = None)
       /\ traffic_time_received' <= now'
      ]_vars

\* a stop target received after construction, replaced by a later one
C16_Witness ==
    /\ traffic_index # -1
    /\ traffic_time_received > 1
    /\ now > traffic_time_received

\* what an iteration publishes, as a function of the values it reads: the
\* path, the pose, the frame identifier, the stop-target index, its time of
\* reception and the current time
OutputsOf(path, p, f, t_index, t_recv, t) ==
    IF path = None \/ p = None \/ f = None THEN << >>
    ELSE LET car == get_closest_waypoint_index(Val(p), Val(path))
             n == IF LOOKAHEAD_WPS < Len(Val(path)) - car
                  THEN LOOKAHEAD_WPS ELSE Len(Val(path)) - car
             d == distance(Val(path), car, t_index)
             slow == /\ t_index > car
                     /\ MIN_DISTANCE < d /\ d < MAX_DISTANCE
                     /\ t - t_recv < STALE_TIME
             speed(k) ==
                 IF ~slow THEN MAX_SPEED
                 ELSE LET dk == distance(Val(path), car + (k - 1), t_index)
                      IN  IF dk > STOPPED_DISTANCE
                          THEN Rat(dk - STOPPED_DISTANCE, SLOW_DISTANCE)
                          ELSE ZERO_SPEED
         IN  << [topic |-> "final_waypoints",
                 msg |-> [frame_id |-> Val(f),
                          waypoints |-> [k \in 1..n |->
                              [x |-> Val(path)[car + k].x,
                               y |-> Val(path)[car + k].y,
                               v |-> speed(k)]]]],
                [topic |-> "car_index", msg |-> car] >>

\* C17: what an iteration publishes is a function of the pose, the path,
\* the stop-target index, its time of reception and the current time it
\* reads, whatever happened before; and no iteration writes
\* previous_car_index or any other field.
C17_OutputsFromCurrentValues ==
    [][iteration' # None =>
          /\ published' = OutputsOf(base_waypoints, pose, frame_id, traffic_index,
                                    traffic_time_received, now)
          /\ previous_car_index' = previous_car_index
          /\ UNCHANGED fields
      ]_vars

\* an iteration after a history of replaced inputs: a second path, a later
\* stop target
C17_Witness ==
    /\ Ran /\ Decelerate
    /\ delivered.first # delivered.last
    /\ traffic_time_received > 0
    /\ previous_car_index = 0 /\ CarIndex > 0

\* C18: each input has one writer: a step of pose_cb changes only pose and
\* frame_id, a step of base_waypoints_cb only base_waypoints, a step of
\* traffic_cb only traffic_index and traffic_time_received; no step changes
\* the fields of two of them, and an iteration of loop changes none of
\* pose, frame_id, traffic_index and traffic_time_received.
C18_SingleWriters ==
    [][LET dPose == pose' # pose \/ frame_id' # frame_id
           dPath == base_waypoints' # base_waypoints
           dStop == traffic_index' # traffic_index
                       \/ traffic_time_received' # traffic_time_received
       IN  /\ (\E msg \in PoseMsgs : pose_cb(msg)) => (~dPath /\ ~dStop)
           /\ (\E msg \in Maps : base_waypoints_cb(msg)) => (~dPose /\ ~dStop)
           /\ (\E msg \in TrafficMsgs : traffic_cb(msg)) => (~dPose /\ ~dPath)
           /\ loop => (~dPose /\ ~dStop)
           /\ iteration' # None => (~dPose /\ ~dStop)
           /\ ~(dPose /\ dPath) /\ ~(dPose /\ dStop) /\ ~(dPath /\ dStop)
           /\ previous_car_index' = previous_car_index
      ]_vars

\* every writer has written, and loop has run on what they wrote
C18_Witness ==
    /\ Ran
    /\ traffic_index # -1 /\ traffic_time_received > 0
    /\ delivered.first # delivered.last
    /\ Val(frame_id) = "map"

\* C19: every speed of every published window is at least 0 and at most
\* MAX_SPEED, the points beyond the stop target included.
C19_SpeedsWithinLimit ==
    Ran => \A k \in DOMAIN Window :
               RatLe(ZERO_SPEED, Window[k].v) /\ RatLe(Window[k].v, MAX_SPEED)

\* C20: when decelerating, the speeds do not increase along the window up
\* to the stop target: for window points i before j, both at or before
\* traffic_index, speed(i) >= speed(j), and speed(i) = 0 gives speed(j) = 0.
C20_NonIncreasingToTarget ==
    (Ran /\ Decelerate) =>
        \A i, j \in DOMAIN Window :
            (i < j /\ CarIndex + (j - 1) <= traffic_index) =>
                /\ RatLe(Window[j].v, Window[i].v)
                /\ Window[i].v = ZERO_SPEED => Window[j].v = ZERO_SPEED

\* a ramp that goes down to 0 before the stop target
C20_Witness ==
    /\ Ran /\ Decelerate
    /\ \E i, j, k \in DOMAIN Window :
          /\ i < j /\ j < k /\ CarIndex + (k - 1) <= traffic_index
          /\ RatLt(Window[j].v, Window[i].v)
          /\ RatLt(ZERO_SPEED, Window[j].v)
          /\ Window[k].v = ZERO_SPEED

====
